---- MODULE Spec2Model ----
(***************************************************************************)
(* NeuroNarrative front end.  Four parts, each with its own specification: *)
(*   SpecApp      App: the CSV/WAV selection handlers and the asynchronous *)
(*                parse requests of handleCsvChange;                       *)
(*   SpecQuery    SignalPreview's render: useInterpolatedSample and        *)
(*   SpecGauge    calculateGaugePosition over bounded sample stores        *)
(*                (irregular sample times; regular sampling);              *)
(*   SpecPlayback SignalPreview's playback cursor: the audio clock, its    *)
(*                events, seekTo, the jump buttons and the overview click; *)
(*   SpecInfer    gsrParser's chooseValueField over bounded CSV tables.    *)
(* A specification leaves the variables of the other parts at their idle   *)
(* values.                                                                 *)
(*                                                                         *)
(* CSV cells are counted in hundredths; an unparseable cell (sanitizeNumber *)
(* returns null) is Undefined.  Scores are counted in twentieths (0.05).   *)
(*                                                                         *)
(* Numbers.  The program works on IEEE doubles; the model works on exact   *)
(* fixed-point integers.  Gauge, baseline, value and resistance quantities *)
(* are counted in 1/Unit, and every stored quantity is a multiple of Grain *)
(* (0.01), so that the linear interpolation over the time gaps of the      *)
(* model and the halving by RESISTANCE_TO_GAUGE_SCALE are exact.           *)
(***************************************************************************)
EXTENDS Integers, Sequences, FiniteSets, TLC

\* one hundredth, in model units
Grain == 24 * 5
\* 1.0, in model units
Unit == 100 * Grain

\* `undefined` of an optional numeric field (baseline?, resistance?)
Undefined == -1

\* ---------------------------------------------------------------- bounds
\* largest number of samples in a store
MaxLen == 3
\* sample times are 0..MaxTime
MaxTime == 2
\* largest number of samples in a regularly sampled store
GaugeLen == 4
\* largest number of CSV selections (parse requests) in a run of App
MaxParses == 3
\* largest number of rows of a CSV table
MaxRows == 3

\* rows of a table in the liveness check of the parse
MaxSettleRows == 1

\* ------------------------------------------------------ program constants
DISPLAY_MIN == 1 * Unit
DISPLAY_MAX == (65 * Unit) \div 10
\* RESISTANCE_TO_GAUGE_SCALE = -0.5 = ScaleNum / ScaleDen
ScaleNum == -1
ScaleDen == 2

\* OverviewChart's geometry, in pixels
chartWidth == 920
leftPadding == 60
rightPadding == 10
usableWidth == chartWidth - leftPadding - rightPadding
\* the skip buttons move by 10 seconds
SkipSeconds == 10

\* Playback times are counted in ticks of 0.1 ms
TicksPerSecond == 10 * 1000
\* Math.max(endTime - startTime, 0.001)
MinDuration == TicksPerSecond \div 1000
\* the audio clock advances in steps of 10 seconds
ClockStep == 10 * TicksPerSecond

\* ------------------------------------------------------------ input sets
\* data.startTimeSec, data.endTimeSec - data.startTimeSec and audio.duration
StartTimes == {0, 5 * TicksPerSecond}
DataDurations == {0, 20 * TicksPerSecond, 40 * TicksPerSecond}
MediaDurations == {20 * TicksPerSecond, 30 * TicksPerSecond}
\* e.clientX - rect.left of a click on the overview chart
ClickOffsets == {0, 60, 145, 485, 910, 919}
\* CSV header rows
HeaderRows == {<<"Time", "Baseline", "Resistance">>, <<"Time", "GSR", "EDA">>}
\* cells of a Baseline column (1.00, 5.00, 6.50) and of a Resistance column
\* (50.00, 56.40, 60.00), in hundredths
BaselineCells == {100, 500, 650}
\* cells of a column whose header matches no pattern: 5.00 and 56.40
SignalCells == {500, 5640}
ResistanceCells == {5000, 5640, 6000}
\* cells of the Baseline column: 5.00 and 6.80 (the second above DISPLAY_MAX)
BaselineSet == {500 * Grain, 680 * Grain}
\* cells of the Resistance column, in kOhm: 66.40 and 66.22
ResistanceSet == {6640 * Grain, 6622 * Grain}
\* the value column chosen by the parser, with the divisor it derives for it
\* (the median of BaselineSet is <= 20, that of ResistanceSet needs one division by 10)
SourceSet == {[column |-> "baseline", divisor |-> 1],
              [column |-> "resistance", divisor |-> 10]}

\* `null` of App's and SignalPreview's nullable state
Null == "null"

\* the CSV files a user can select, and those whose parse is rejected
CsvFiles == {"a.csv", "b.csv", "broken.csv"}
RejectedCsvFiles == {"broken.csv"}
WavFiles == {"a.wav"}

VARIABLES
    \* ---- App
    csvFile,        \* useState: the selected CSV file, or Null
    wavFile,        \* useState: the selected WAV file, or Null
    gsrPreview,     \* useState: the published ParsedGsrResult, or NoResult
    parseError,     \* useState: the published error message, or Null
    isParsingCsv,   \* useState
    latestParseId,  \* useRef
    previewVisible, \* useState
    hasPreviewed,   \* useState
    pending,        \* the handleCsvChange calls suspended at `await parseGsrCsv(file)`
    discarded,      \* the parseIds whose continuation returned at the stale check
    \* ---- SignalPreview, render
    samples,        \* data.samples: the sorted sample store
    sourceColumn,   \* data.sourceColumn
    scalingFactor,  \* data.scalingFactor
    hasBaseline,    \* data.hasBaseline
    hasResistance,  \* data.hasResistance
    queryTime,      \* currentTime + data.startTimeSec of the last render
    currentSample,  \* useInterpolatedSample(data.samples, queryTime)
    referenceIndex, \* index of the sample that supplied referenceResistance
    gaugeValue,     \* calculateGaugePosition(currentSample, ...)
    displayValue,   \* clamp(gaugeValue, gaugeMin, gaugeMax)
    rendered,       \* whether a render has happened
    \* ---- SignalPreview, playback
    startTimeSec,   \* data.startTimeSec
    endTimeSec,     \* data.endTimeSec
    mediaDuration,  \* audio.duration once the metadata is loaded
    metadataLoaded, \* whether the audio element has its metadata
    audioCurrentTime, \* audio.currentTime
    audioPaused,    \* audio.paused
    audioDuration,  \* useState: number, or Undefined for null
    currentTime,    \* useState: the shared cursor
    isPlaying,      \* useState
    lastSeek,       \* the last handler, if a seek: the time passed to seekTo
    sought,         \* the target of the last seek that no tick has followed yet
    lastEvent,      \* the most recent playback event: play, pause, ended, ...
    \* ---- gsrParser
    csvFields,      \* results.meta.fields
    csvRows,        \* the rows: field name -> sanitizeNumber of the cell
    chosen,         \* what chooseValueField returned or threw, NotChosen before
    scaling,        \* a median and the divisor the while loop derives for it
    csvErrors,      \* results.errors
    parsed,         \* how the promise of parseGsrCsv ended, NotParsed before
    unsettled       \* the parseIds whose promise was neither resolved nor rejected

queryVars == <<samples, sourceColumn, scalingFactor, hasBaseline, hasResistance, queryTime,
               currentSample, referenceIndex, gaugeValue, displayValue, rendered>>

appVars == <<csvFile, wavFile, gsrPreview, parseError, isParsingCsv, latestParseId,
             previewVisible, hasPreviewed, pending, discarded>>

playVars == <<startTimeSec, endTimeSec, mediaDuration, metadataLoaded, audioCurrentTime,
              audioPaused, audioDuration, currentTime, isPlaying, lastSeek, sought,
              lastEvent>>

inferVars == <<csvFields, csvRows, chosen, csvErrors, parsed, unsettled, scaling>>

vars == <<appVars, queryVars, playVars, inferVars>>

\* ----------------------------------------------------------------- helpers
\* currentSample before the first render
NoSample == [timeSec |-> Undefined, value |-> Undefined, rawValue |-> Undefined,
             baseline |-> Undefined, resistance |-> Undefined]

\* the state of SignalPreview's render before any preview is mounted
IdleQuery ==
    /\ samples = <<>> /\ sourceColumn = Null /\ scalingFactor = 1
    /\ hasBaseline = FALSE /\ hasResistance = FALSE
    /\ queryTime = Undefined /\ currentSample = NoSample /\ referenceIndex = Undefined
    /\ gaugeValue = Undefined /\ displayValue = Undefined /\ rendered = FALSE

Min2(a, b) == IF a < b THEN a ELSE b
Max2(a, b) == IF a > b THEN a ELSE b

\* Math.max(value, min): a clamp that has lost its upper bound
clampFromBelow(value, min, max) == Max2(value, min)

clamp(value, min, max) == Min2(Max2(value, min), max)

OptionalOf(S) == S \cup {Undefined}

\* a ?? b
Coalesce(a, b) == IF a # Undefined THEN a ELSE b

\* ------------------------------------------------- useInterpolatedSample
\* the while loop of the binary search: the index found, or the final
\* (left, right) pair when the loop ends without an exact match
RECURSIVE BinarySearch(_, _, _, _)
BinarySearch(s, t, left, right) ==
    IF left > right
    THEN [found |-> FALSE, index |-> 0, left |-> left, right |-> right]
    ELSE LET mid == (left + right) \div 2
         IN  IF s[mid + 1].timeSec = t
             THEN [found |-> TRUE, index |-> mid, left |-> left, right |-> right]
             ELSE IF s[mid + 1].timeSec < t
                  THEN BinarySearch(s, t, mid + 1, right)
                  ELSE BinarySearch(s, t, left, mid - 1)

\* no interpolation: the lower sample's value is held up to the upper sample
LerpHold(lower, upper, num, den) == lower

\* lower + (upper - lower) * clampedRatio, clampedRatio = num / den
Lerp(lower, upper, num, den) == lower + ((upper - lower) * num) \div den

\* the baseline interpolated like the value, as before the step-function fix
LinearBaseline(lower, upper, num, den) ==
    IF lower.baseline # Undefined /\ upper.baseline # Undefined
    THEN Lerp(lower.baseline, upper.baseline, num, den)
    ELSE Coalesce(lower.baseline, upper.baseline)

\* the baseline of the interpolated sample: the lower sample's (a step function)
InterpolatedBaseline(lower, upper, num, den) == lower.baseline

\* a resistance that is only known when both bracketing samples carry one
InterpolatedResistanceStrict(lower, upper, num, den) ==
    IF lower.resistance # Undefined /\ upper.resistance # Undefined
    THEN Lerp(lower.resistance, upper.resistance, num, den)
    ELSE Undefined

InterpolatedResistance(lower, upper, num, den) ==
    IF lower.resistance # Undefined /\ upper.resistance # Undefined
    THEN Lerp(lower.resistance, upper.resistance, num, den)
    ELSE Coalesce(lower.resistance, upper.resistance)

\* the two boundary returns: the first and the last stored sample
FirstSample(s, t) == s[1]

\* a boundary return that extrapolates the last value by the overshoot
LastSampleExtrapolated(s, t) ==
    [s[Len(s)] EXCEPT !.value = @ + (t - s[Len(s)].timeSec) * Grain]

LastSample(s, t) == s[Len(s)]

\* s is a non-empty store (0-based index i of the code is s[i + 1])
useInterpolatedSample(s, t) ==
    IF t <= s[1].timeSec THEN FirstSample(s, t)
    ELSE IF t >= s[Len(s)].timeSec THEN LastSample(s, t)
    ELSE LET r == BinarySearch(s, t, 0, Len(s) - 1)
         IN  IF r.found THEN s[r.index + 1]
             ELSE LET lowerIndex == Max2(0, r.right)
                      upperIndex == Min2(Len(s) - 1, r.left)
                      lower == s[lowerIndex + 1]
                      upper == s[upperIndex + 1]
                      den == upper.timeSec - lower.timeSec
                      num == clamp(t - lower.timeSec, 0, den)
                  IN  IF upper.timeSec = lower.timeSec THEN lower
                      ELSE [timeSec |-> t,
                            value |-> Lerp(lower.value, upper.value, num, den),
                            rawValue |-> Lerp(lower.rawValue, upper.rawValue, num, den),
                            baseline |-> InterpolatedBaseline(lower, upper, num, den),
                            resistance |-> InterpolatedResistance(lower, upper, num, den)]

\* ------------------------------------------------ calculateGaugePosition
\* a period start recognised at the first sample only
IsFirstSample(s, i, b) == i = 0

\* whether sample i (0-based) starts a baseline period of baseline b
IsPeriodStart(s, i, b) == i = 0 \/ s[i].baseline # b

\* the for loop over samples[i], i = 0-based index; ref is the 0-based index of
\* the sample whose resistance referenceResistance holds (Undefined: none yet)
RECURSIVE ReferenceScan(_, _, _, _)
ReferenceScan(s, sample, i, ref) ==
    IF i >= Len(s) THEN ref
    ELSE LET cur == s[i + 1]
         IN  IF cur.timeSec > sample.timeSec THEN ref
             ELSE IF cur.baseline = Undefined \/ cur.resistance = Undefined
                  THEN ReferenceScan(s, sample, i + 1, ref)
             ELSE IF cur.baseline = sample.baseline
                  THEN IF IsPeriodStart(s, i, sample.baseline)
                       THEN ReferenceScan(s, sample, i + 1, i)
                       ELSE IF ref = Undefined
                            THEN ReferenceScan(s, sample, i + 1, i)
                            ELSE ReferenceScan(s, sample, i + 1, ref)
             ELSE ReferenceScan(s, sample, i + 1, ref)

\* the index left by the loop; the loop runs only when the sample has both fields
referenceSource(sample, s, hasB, hasR) ==
    IF hasB /\ sample.baseline # Undefined /\ hasR /\ sample.resistance # Undefined
    THEN ReferenceScan(s, sample, 0, Undefined)
    ELSE Undefined

referenceResistance(sample, s) ==
    LET ref == ReferenceScan(s, sample, 0, Undefined)
    IN  IF ref = Undefined THEN Undefined ELSE s[ref + 1].resistance

\* the projection with the sign of the scale factor lost
GaugeTargetUnsigned(baseline, resistance, ref) ==
    baseline + (resistance - ref) \div ScaleDen

\* sample.baseline + (sample.resistance - referenceResistance) * RESISTANCE_TO_GAUGE_SCALE
GaugeTarget(baseline, resistance, ref) ==
    baseline + ((resistance - ref) * ScaleNum) \div ScaleDen

\* a fallback that clamps the original value into the display range
GaugeFallbackClamped(sample) == clamp(sample.value, DISPLAY_MIN, DISPLAY_MAX)

\* the last return of calculateGaugePosition: the fallback to the original value
GaugeFallback(sample) == sample.value

calculateGaugePosition(sample, s, hasB, hasR) ==
    IF hasB /\ sample.baseline # Undefined
    THEN IF hasR /\ sample.resistance # Undefined
            /\ referenceResistance(sample, s) # Undefined
         THEN clamp(GaugeTarget(sample.baseline, sample.resistance,
                                referenceResistance(sample, s)),
                    DISPLAY_MIN, DISPLAY_MAX)
         ELSE clamp(sample.baseline, DISPLAY_MIN, DISPLAY_MAX)
    ELSE GaugeFallback(sample)

\* ------------------------------------------------------------ the stores
\* the non-decreasing time sequences of length n (the store is sorted by timeSec)
SortedTimes(n) ==
    {ts \in [1..n -> 0..MaxTime] : \A i \in 1..(n - 1) : ts[i] <= ts[i + 1]}

\* the rows that survive the parse: the cell of the value column is a number,
\* the cell of the other column is a number or unparseable
RowSet(src) ==
    IF src.column = "baseline"
    THEN [baseline : BaselineSet, resistance : OptionalOf(ResistanceSet)]
    ELSE [baseline : OptionalOf(BaselineSet), resistance : ResistanceSet]

\* the sample parseGsrCsv builds from a row: rawValue is the cell of the value
\* column, value is rawValue / divisor
SampleOf(timeSec, row, src) ==
    [timeSec |-> timeSec,
     value |-> row[src.column] \div src.divisor,
     rawValue |-> row[src.column],
     baseline |-> row.baseline,
     resistance |-> row.resistance]

StoresOfLen(n, src) ==
    {[i \in 1..n |-> SampleOf(ts[i], f[i], src)] :
        ts \in SortedTimes(n), f \in [1..n -> RowSet(src)]}

\* regular sampling: one sample every SamplePeriod
SamplePeriod == 1 + 1

RegularStoresOfLen(n, src) ==
    {[i \in 1..n |-> SampleOf((i - 1) * SamplePeriod, f[i], src)] :
        f \in [1..n -> RowSet(src)]}

\* a column exists whenever some sample carries the field
HasField(s, f) == \E i \in 1..Len(s) : s[i][f] # Undefined

\* -------------------------------------------------------------- gsrParser
\* normalizeField(field) matched against a pattern: the lower-cased header
\* contains the pattern
Contains(field, pattern) ==
    pattern \in (CASE field = "Time" -> {"time"}
                   [] field = "Baseline" -> {"baseline"}
                   [] field = "Resistance" -> {"resistance"}
                   [] field = "Timestamp" -> {"time"}
                   [] field = "DataTime" -> {"data", "time"}
                   [] OTHER -> {})

\* FIELD_PRIORITY, the bonus in twentieths
FIELD_PRIORITY ==
    << [match |-> "baseline", bonus |-> 8],
       [match |-> "resistance", bonus |-> 5],
       [match |-> "conductance", bonus |-> 4],
       [match |-> "data", bonus |-> 3],
       [match |-> "value", bonus |-> 2] >>

\* the bonus of a field that matches no pattern
DefaultBonus == 1

MatchesPriority(field) ==
    \E k \in 1..Len(FIELD_PRIORITY) : Contains(field, FIELD_PRIORITY[k].match)

\* every column given the default bonus
flatBonus(field) == DefaultBonus

\* FIELD_PRIORITY.find(...)?.bonus ?? 0.05
priorityBonus(field) ==
    IF MatchesPriority(field)
    THEN LET k == CHOOSE k \in 1..Len(FIELD_PRIORITY) :
                     /\ Contains(field, FIELD_PRIORITY[k].match)
                     /\ \A j \in 1..(k - 1) : ~Contains(field, FIELD_PRIORITY[j].match)
         IN  FIELD_PRIORITY[k].bonus
    ELSE DefaultBonus

IsCandidate(field) == MatchesPriority(field)

IsFallbackNumeric(field) == field # "" /\ ~Contains(field, "time")

\* the parseable cells of a column, in row order
RECURSIVE ColumnValues(_, _, _)
ColumnValues(rows, field, k) ==
    IF k > Len(rows) THEN <<>>
    ELSE IF rows[k][field] # Undefined
         THEN <<rows[k][field]>> \o ColumnValues(rows, field, k + 1)
         ELSE ColumnValues(rows, field, k + 1)

\* sorted[Math.floor(sorted.length / 2)]
Median(values) == SortSeq(values, <)[(Len(values) \div 2) + 1]

\* a loop that also divides a median of exactly 20
RECURSIVE DivisorLoopFromTwenty(_, _, _)
DivisorLoopFromTwenty(median, divisor, iterations) ==
    IF median >= 20 * 100 * divisor /\ iterations < 6
    THEN DivisorLoopFromTwenty(median, divisor * 10, iterations + 1)
    ELSE divisor

\* while (adjustedMedian > 20 && iterations < 6): the divisor it ends with
RECURSIVE DivisorLoop(_, _, _)
DivisorLoop(median, divisor, iterations) ==
    IF median > 20 * 100 * divisor /\ iterations < 6
    THEN DivisorLoop(median, divisor * 10, iterations + 1)
    ELSE divisor

SeqMin(values) == CHOOSE v \in {values[k] : k \in 1..Len(values)} :
                      \A k \in 1..Len(values) : v <= values[k]
SeqMax(values) == CHOOSE v \in {values[k] : k \in 1..Len(values)} :
                      \A k \in 1..Len(values) : v >= values[k]

\* the number of scaled values with value >= 0.5 && value <= 10
WithinRange(values, divisor) ==
    Cardinality({k \in 1..Len(values) :
                    values[k] >= 50 * divisor /\ values[k] <= 1000 * divisor})

\* rangeScore * 0.6 + variabilityScore * 0.25 + priorityBonus, in twentieths, as
\* the fraction num / den with den = n * 100 * divisor
Score(values, divisor, bonus) ==
    LET n == Len(values)
        den == n * 100 * divisor
        spread == SeqMax(values) - SeqMin(values)
        variability == IF spread > 0 THEN n * Min2(spread, 500 * divisor) ELSE -den
    IN  [num |-> 12 * WithinRange(values, divisor) * 100 * divisor + variability + bonus * den,
         den |-> den]

\* score >= best.score: a later column of equal score replaces the earlier one
ScoreBeatsOrTies(score, best) ==
    ~best.scored \/ score.num * best.score.den >= best.score.num * score.den

\* score > best.score (best.score is -Infinity while best.scored is FALSE)
ScoreBeats(score, best) ==
    ~best.scored \/ score.num * best.score.den > best.score.num * score.den

\* the for loop over fieldsToConsider
RECURSIVE ChooseLoop(_, _, _, _)
ChooseLoop(considered, rows, k, best) ==
    IF k > Len(considered) THEN best
    ELSE LET field == considered[k]
             values == ColumnValues(rows, field, 1)
         IN  IF values = <<>> THEN ChooseLoop(considered, rows, k + 1, best)
             ELSE LET divisor == DivisorLoop(Median(values), 1, 0)
                      score == Score(values, divisor, priorityBonus(field))
                  IN  IF ScoreBeats(score, best)
                      THEN ChooseLoop(considered, rows, k + 1,
                                      [field |-> field, divisor |-> divisor,
                                       min |-> SeqMin(values), max |-> SeqMax(values),
                                       scored |-> TRUE, score |-> score])
                      ELSE ChooseLoop(considered, rows, k + 1, best)

NotChosen == [status |-> "none"]

\* chooseValueField(fields, rows): the record returned (min and max are counted
\* in hundredths of 1 / divisor), or the error thrown
chooseValueField(fields, rows) ==
    LET candidates == SelectSeq(fields, IsCandidate)
        fallbackNumeric == SelectSeq(fields, IsFallbackNumeric)
        fieldsToConsider == IF candidates # <<>> THEN candidates ELSE fallbackNumeric
    IN  IF fieldsToConsider = <<>>
        THEN [status |-> "error",
              message |-> "The CSV export does not contain any numeric signal columns."]
        ELSE LET best == ChooseLoop(fieldsToConsider, rows, 1,
                                    [field |-> fieldsToConsider[1], divisor |-> 1,
                                     min |-> 0, max |-> 0, scored |-> FALSE,
                                     score |-> [num |-> 0, den |-> 1]])
             IN  IF ~best.scored
                 THEN [status |-> "error",
                       message |-> "Unable to infer a usable signal column from the CSV export."]
                 ELSE [status |-> "ok", field |-> best.field, divisor |-> best.divisor,
                       min |-> best.min, max |-> best.max]

\* parsed before Papa.parse has called back
NotParsed == [status |-> "none"]

\* scaling while no median is looked at
NotScaled == [median |-> 0, divisor |-> Undefined]

IdleInfer ==
    /\ csvFields = <<>> /\ csvRows = <<>> /\ chosen = NotChosen /\ scaling = NotScaled
    /\ csvErrors = <<>> /\ parsed = NotParsed /\ unsettled = {}

\* the cells a column of the table can hold
CellSet(field) ==
    CASE field = "Time" -> {0}
      [] field = "Baseline" -> OptionalOf(BaselineCells)
      [] field = "Resistance" -> OptionalOf(ResistanceCells)
      [] field \in {"GSR", "EDA"} -> OptionalOf(SignalCells)

AllCells == {0} \cup OptionalOf(BaselineCells) \cup OptionalOf(ResistanceCells)

\* the tables of 1..MaxRows rows under a header row
Tables(fields) ==
    LET names == {fields[k] : k \in 1..Len(fields)}
        rowSet == {r \in [names -> AllCells] : \A f \in names : r[f] \in CellSet(f)}
    IN  UNION {[1..n -> rowSet] : n \in 1..MaxRows}

\* the medians the while loop is run on, in hundredths: negative ones, the
\* thresholds 10 * 10^k, 15 * 10^k and 20 * 10^k with their neighbours, and two
\* medians above 20 * 10^6
\* iterations < 6: the most divisions by ten the loop makes
MaxIterations == 6

RECURSIVE Pow10(_)
Pow10(k) == IF k = 0 THEN 1 ELSE 10 * Pow10(k - 1)

Medians ==
    {c * 100 * Pow10(k) + delta :
        c \in {10, 15, 20}, k \in 0..MaxIterations, delta \in {0 - 1, 0, 1}}
        \cup {0 - 50000, 0 - 1, 0, 21 * Pow10(8), 2147483647}

\* ---------------------------------------------------- gsrParser, parseGsrCsv
\* Time cells are counted in thousandths, timeSec in millionths of a second.
\* the cell of an empty field ("" after trim)
Blank == -2

\* the header rows handed to parseGsrCsv: no header, no time column, no signal
\* column, and the two exports with a Baseline column
ParseHeaderRows ==
    {<<>>, <<"Sample", "Baseline">>, <<"Time", "Timestamp">>,
     <<"Time", "Baseline">>, <<"Time", "Baseline", "Resistance">>,
     <<"DataTime", "Baseline">>}

\* the cells of a column: numbers, or Undefined for text that is no number
\* (0 and 1.5 in the Time column; 5.00, 6.50 and 56.40 in the signal columns)
ParseCells(fields, field) ==
    CASE field = "Time" ->
            IF Len(fields) > 2 THEN OptionalOf({0}) ELSE OptionalOf({0, 1500})
      [] field = "Timestamp" -> OptionalOf({0})
      [] field = "DataTime" -> OptionalOf({1500})
      [] field = "Sample" -> {0}
      [] field = "Baseline" ->
            IF Len(fields) > 2 \/ fields[1] = "DataTime" THEN OptionalOf({500})
            ELSE OptionalOf({500, 650})
      [] field = "Resistance" -> OptionalOf({5640})

\* the rows of a table: a cell for every field, or a row of empty fields
ParseRows(fields) ==
    LET names == {fields[k] : k \in 1..Len(fields)}
    IN  {r \in [names -> {Undefined, 0, 500, 650, 1500, 5640}] :
            \A f \in names : r[f] \in ParseCells(fields, f)}
        \cup {[f \in names |-> Blank]}

\* results.data of the tables of 0..MaxRows rows (no rows without a header)
ParseTables(fields) ==
    IF fields = <<>> THEN {<<>>}
    ELSE UNION {[1..n -> ParseRows(fields)] : n \in 0..MaxRows}

\* the rows that may have been short in the file: Papa leaves the missing last
\* field undefined and reports the row in results.errors
ShortRows(fields, rows) ==
    IF Len(fields) < 2 THEN {}
    ELSE {k \in 1..Len(rows) : rows[k][fields[Len(fields)]] = Undefined}

RECURSIVE ErrorsFrom(_, _, _)
ErrorsFrom(short, k, n) ==
    IF k > n THEN <<>>
    ELSE (IF k \in short THEN <<[row |-> k, message |-> "Too few fields"]>> ELSE <<>>)
             \o ErrorsFrom(short, k + 1, n)

\* results.errors: one error for each short row, in row order
PapaErrors(fields, rows) ==
    {ErrorsFrom(short, 1, Len(rows)) : short \in SUBSET ShortRows(fields, rows)}

\* sanitizeNumber: the number, or Undefined for null
sanitizeNumber(cell) == IF cell >= 0 THEN cell ELSE Undefined

\* results.data with the file row of each record (key "#"), for the properties
Numbered(rows) ==
    [k \in 1..Len(rows) |->
        [f \in (DOMAIN rows[k]) \cup {"#"} |-> IF f = "#" THEN k ELSE rows[k][f]]]

\* Object.values(row).some(value => value !== null && String(value ?? "").trim() !== "")
HasContent(fields, row) == \E k \in 1..Len(fields) : row[fields[k]] # Blank

RECURSIVE FilterRows(_, _, _)
FilterRows(fields, rows, k) ==
    IF k > Len(rows) THEN <<>>
    ELSE (IF HasContent(fields, rows[k]) THEN <<rows[k]>> ELSE <<>>)
             \o FilterRows(fields, rows, k + 1)

\* fields.find(field => normalizeField(field).includes(pattern)), or Null
RECURSIVE FindField(_, _, _)
FindField(fields, pattern, k) ==
    IF k > Len(fields) THEN Null
    ELSE IF Contains(fields[k], pattern) THEN fields[k]
    ELSE FindField(fields, pattern, k + 1)

\* the sum of Math.abs(timeValues[i] - timeValues[i - 1]) for i = k..
RECURSIVE SumAbsDiffs(_, _)
SumAbsDiffs(timeValues, k) ==
    IF k > Len(timeValues) THEN 0
    ELSE LET diff == timeValues[k] - timeValues[k - 1]
         IN  (IF diff < 0 THEN -diff ELSE diff) + SumAbsDiffs(timeValues, k + 1)

\* determineTimeScaling: 1000 for a time column in milliseconds, else 1
determineTimeScaling(timeField, timeValues) ==
    IF timeValues = <<>> THEN 1
    ELSE IF Contains(timeField, "ms") \/ Contains(timeField, "msec") THEN 1000
    ELSE IF Len(timeValues) < 2 THEN 1
    ELSE IF SumAbsDiffs(timeValues, 2) >= 1000 * (Len(timeValues) - 1) THEN 1000
    ELSE 1

\* the sample of a row, with the file row it was built from
RowSample(row, timeField, valueField, divisor, timeScale, baselineField, resistanceField) ==
    [timeSec |-> (sanitizeNumber(row[timeField]) * 1000) \div timeScale,
     value |-> sanitizeNumber(row[valueField]) \div divisor,
     rawValue |-> sanitizeNumber(row[valueField]),
     baseline |-> IF baselineField # Null THEN sanitizeNumber(row[baselineField])
                  ELSE Undefined,
     resistance |-> IF resistanceField # Null THEN sanitizeNumber(row[resistanceField])
                    ELSE Undefined,
     row |-> row["#"]]

\* a loop that gives up at the first row without a time or a value
BuildSamplesStrict(rows, k, timeField, valueField, divisor, timeScale, baselineField, resistanceField) ==
    IF \E j \in 1..Len(rows) : sanitizeNumber(rows[j][timeField]) = Undefined
                                  \/ sanitizeNumber(rows[j][valueField]) = Undefined
    THEN <<>>
    ELSE [j \in 1..Len(rows) |->
             RowSample(rows[j], timeField, valueField, divisor, timeScale,
                       baselineField, resistanceField)]

\* a loop that keeps the rows without a time
RECURSIVE BuildSamplesUntimed(_, _, _, _, _, _, _, _)
BuildSamplesUntimed(rows, k, timeField, valueField, divisor, timeScale, baselineField, resistanceField) ==
    IF k > Len(rows) THEN <<>>
    ELSE (IF sanitizeNumber(rows[k][valueField]) = Undefined
          THEN <<>>
          ELSE <<RowSample(rows[k], timeField, valueField, divisor, timeScale,
                           baselineField, resistanceField)>>)
             \o BuildSamplesUntimed(rows, k + 1, timeField, valueField, divisor, timeScale,
                                    baselineField, resistanceField)

\* the loop that builds samples: rows without a time or a value are skipped
RECURSIVE BuildSamples(_, _, _, _, _, _, _, _)
BuildSamples(rows, k, timeField, valueField, divisor, timeScale, baselineField, resistanceField) ==
    IF k > Len(rows) THEN <<>>
    ELSE (IF sanitizeNumber(rows[k][timeField]) = Undefined
             \/ sanitizeNumber(rows[k][valueField]) = Undefined
          THEN <<>>
          ELSE <<RowSample(rows[k], timeField, valueField, divisor, timeScale,
                           baselineField, resistanceField)>>)
             \o BuildSamples(rows, k + 1, timeField, valueField, divisor, timeScale,
                             baselineField, resistanceField)

\* the place given by a sort that reverses the samples of equal time
SortedPlaceUnstable(s, k) ==
    Cardinality({j \in 1..Len(s) : s[j].timeSec < s[k].timeSec})
        + Cardinality({j \in (k + 1)..Len(s) : s[j].timeSec = s[k].timeSec}) + 1

\* the place of sample k after the sort: behind the earlier samples and behind
\* the samples of the same time that precede it in the list
SortedPlace(s, k) ==
    Cardinality({j \in 1..Len(s) : s[j].timeSec < s[k].timeSec})
        + Cardinality({j \in 1..(k - 1) : s[j].timeSec = s[k].timeSec}) + 1

\* samples.sort((a, b) => a.timeSec - b.timeSec): Array.prototype.sort is stable
SortByTime(s) ==
    [i \in 1..Len(s) |-> s[CHOOSE k \in 1..Len(s) : SortedPlace(s, k) = i]]

\* samplingRateHz = null
NoRate == [num |-> 0, den |-> 0]

\* samplingRateHz = 1 / avgDiff as the fraction (n - 1) / (end - start), or null
SamplingRate(sorted) ==
    LET span == sorted[Len(sorted)].timeSec - sorted[1].timeSec
    IN  IF Len(sorted) > 1 /\ span > 0 THEN [num |-> Len(sorted) - 1, den |-> span]
        ELSE NoRate

\* reject(new Error(message))
Rejected(message) == [status |-> "rejected", message |-> message]

\* an exception that leaves the `complete` callback: Papa.parse reads a File
\* asynchronously, so the callback runs outside the promise executor and
\* neither resolve nor reject is called
Thrown(message) == [status |-> "thrown", message |-> message]

\* a `const` of the code: body(v) for the value v, computed once
Const(body(_), v) == CHOOSE r \in {body(x) : x \in {v}} : TRUE

\* resolve({...}) for the chosen column and the sorted samples
Resolved(choice, sorted, baselineField, resistanceField) ==
    [status |-> "resolved",
     samples |-> sorted,
     samplingRateHz |-> SamplingRate(sorted),
     sourceColumn |-> choice.field,
     scalingFactor |-> choice.divisor,
     minValue |-> choice.min,
     maxValue |-> choice.max,
     startTimeSec |-> sorted[1].timeSec,
     endTimeSec |-> sorted[Len(sorted)].timeSec,
     hasBaseline |-> baselineField # Null,
     hasResistance |-> resistanceField # Null,
     baselineColumn |-> baselineField,
     resistanceColumn |-> resistanceField]

\* parseGsrCsv from `const samples = []` on
parseSamples(fields, rows, timeField, timeValues, choice) ==
    LET baselineField == FindField(fields, "baseline", 1)
        resistanceField == FindField(fields, "resistance", 1)
        timeScale == determineTimeScaling(timeField, timeValues)
    IN  Const(LAMBDA built :
                  IF built = <<>>
                  THEN Rejected("No usable samples were found in the CSV export.")
                  ELSE Const(LAMBDA sorted :
                                 Resolved(choice, sorted, baselineField, resistanceField),
                             SortByTime(built)),
              BuildSamples(rows, 1, timeField, choice.field, choice.divisor, timeScale,
                           baselineField, resistanceField))

\* parseGsrCsv from `const rows = results.data.filter(...)` on
parseRows(fields, rows) ==
    LET timeField == FindField(fields, "time", 1)
    IN  IF rows = <<>> THEN Rejected("The CSV export does not contain any samples.")
        ELSE Const(LAMBDA timeValues :
                 IF timeValues = <<>>
                 THEN Rejected("The time column does not contain numeric values.")
                 ELSE Const(LAMBDA choice :
                                IF choice.status = "error" THEN Thrown(choice.message)
                                ELSE parseSamples(fields, rows, timeField, timeValues, choice),
                            chooseValueField(fields, rows)),
                 ColumnValues(rows, timeField, 1))

\* parseGsrCsv: how its promise ends for results = {data, errors, meta.fields}
parseGsrCsv(fields, data, errors) ==
    IF errors # <<>> THEN Rejected(errors[1].message)
    ELSE IF fields = <<>> THEN Rejected("CSV export is missing a header row.")
    ELSE IF FindField(fields, "time", 1) = Null
    THEN Rejected("CSV export must contain a time column.")
    ELSE Const(LAMBDA rows : parseRows(fields, rows), FilterRows(fields, Numbered(data), 1))

\* -------------------------------------------------------------------- App
\* the ParsedGsrResult of a request: the file it was parsed from (parseId is
\* the request that produced it, kept for the properties)
ParsedResult(file, parseId) == [file |-> file, parseId |-> parseId]

\* gsrPreview = null
NoResult == [file |-> Null, parseId |-> 0]

\* error.message of a rejected parse
ErrorMessage(file) == "cannot parse " \o file

\* a continuation that never regards itself as superseded
IsNeverStale(latest, parseId) == FALSE

\* latestParseId.current !== parseId
IsStale(latest, parseId) == latest # parseId

\* a preview that does not wait for the WAV file
previewDisabledWithoutWav(csv, wav, err, preview) ==
    csv = Null \/ err # Null \/ preview = NoResult

\* const previewDisabled = !csvFile || !wavFile || !!parseError || !gsrPreview
previewDisabled(csv, wav, err, preview) ==
    csv = Null \/ wav = Null \/ err # Null \/ preview = NoResult

\* the effect "Auto-show preview when both files are ready", run after the
\* render that follows a handler: the values of <<previewVisible, hasPreviewed>>
AutoShow(csv, wav, err, preview, visible, previewed) ==
    IF ~previewDisabled(csv, wav, err, preview) /\ ~previewed
    THEN <<TRUE, TRUE>>
    ELSE <<visible, previewed>>

\* const analyzeDisabled = previewDisabled || !hasPreviewed
analyzeDisabled ==
    previewDisabled(csvFile, wavFile, parseError, gsrPreview) \/ ~hasPreviewed

IdleApp ==
    /\ csvFile = Null /\ wavFile = Null /\ gsrPreview = NoResult /\ parseError = Null
    /\ isParsingCsv = FALSE /\ latestParseId = 0
    /\ previewVisible = FALSE /\ hasPreviewed = FALSE
    /\ pending = {} /\ discarded = {}

\* handleCsvChange(file) up to its return (file = Null) or its await
handleCsvChange(file) ==
    /\ latestParseId < MaxParses
    /\ csvFile' = file
    /\ gsrPreview' = NoResult
    /\ latestParseId' = latestParseId + 1
    /\ IF file = Null
       THEN /\ parseError' = Null
            /\ isParsingCsv' = FALSE
            /\ pending' = pending
       ELSE /\ parseError' = parseError
            /\ isParsingCsv' = TRUE
            /\ pending' = pending \cup {[parseId |-> latestParseId + 1, file |-> file]}
    /\ previewVisible' = AutoShow(csvFile', wavFile, parseError', gsrPreview', FALSE, FALSE)[1]
    /\ hasPreviewed' = AutoShow(csvFile', wavFile, parseError', gsrPreview', FALSE, FALSE)[2]
    /\ UNCHANGED <<wavFile, discarded>>

\* the continuation of handleCsvChange after `await parseGsrCsv(file)` gave result
ContinueResolved(req, result) ==
    /\ req \in pending
    /\ pending' = pending \ {req}
    /\ IF IsStale(latestParseId, req.parseId)
       THEN /\ discarded' = discarded \cup {req.parseId}
            /\ UNCHANGED <<gsrPreview, parseError, isParsingCsv, previewVisible, hasPreviewed>>
       ELSE /\ discarded' = discarded
            /\ gsrPreview' = result
            /\ parseError' = Null
            /\ isParsingCsv' = FALSE
            /\ previewVisible' = AutoShow(csvFile, wavFile, parseError', gsrPreview',
                                          previewVisible, hasPreviewed)[1]
            /\ hasPreviewed' = AutoShow(csvFile, wavFile, parseError', gsrPreview',
                                        previewVisible, hasPreviewed)[2]
    /\ UNCHANGED <<csvFile, wavFile, latestParseId>>

\* the continuation of handleCsvChange after parseGsrCsv resolved
ParseResolved(req) ==
    /\ req.file \notin RejectedCsvFiles
    /\ ContinueResolved(req, ParsedResult(req.file, req.parseId))

\* the continuation of handleCsvChange after `await parseGsrCsv(file)` threw
\* an error with this message: catch and finally
ContinueRejected(req, message) ==
    /\ req \in pending
    /\ pending' = pending \ {req}
    /\ IF IsStale(latestParseId, req.parseId)
       THEN /\ discarded' = discarded \cup {req.parseId}
            /\ UNCHANGED <<parseError, isParsingCsv>>
       ELSE /\ discarded' = discarded
            /\ parseError' = message
            /\ isParsingCsv' = FALSE
    /\ UNCHANGED <<csvFile, wavFile, gsrPreview, latestParseId, previewVisible, hasPreviewed>>

\* the continuation of handleCsvChange after parseGsrCsv rejected
ParseRejected(req) ==
    /\ req.file \in RejectedCsvFiles
    /\ ContinueRejected(req, ErrorMessage(req.file))

\* a handler that leaves the preview on screen when the audio changes
handleWavChangeKeepsPreview(file) ==
    /\ wavFile' = file
    /\ UNCHANGED <<previewVisible, hasPreviewed>>
    /\ UNCHANGED <<csvFile, gsrPreview, parseError, isParsingCsv, latestParseId, pending,
                   discarded>>

\* handleWavChange(file), with the auto-show effect that runs after it
handleWavChange(file) ==
    /\ wavFile' = file
    /\ previewVisible' = AutoShow(csvFile, file, parseError, gsrPreview, FALSE, FALSE)[1]
    /\ hasPreviewed' = AutoShow(csvFile, file, parseError, gsrPreview, FALSE, FALSE)[2]
    /\ UNCHANGED <<csvFile, gsrPreview, parseError, isParsingCsv, latestParseId, pending,
                   discarded>>

handlePreviewClick ==
    /\ ~previewDisabled(csvFile, wavFile, parseError, gsrPreview)
    /\ previewVisible' = TRUE
    /\ hasPreviewed' = TRUE
    /\ UNCHANGED <<csvFile, wavFile, gsrPreview, parseError, isParsingCsv, latestParseId,
                   pending, discarded>>

\* ------------------------------------------------- SignalPreview, playback
\* no seek: the last handler was not seekTo
NoSeek == [seek |-> FALSE, time |-> 0, click |-> Undefined, rejected |-> FALSE]

\* the last handler was the catch of a rejected audio.play()
PlayFailure == [seek |-> FALSE, time |-> 0, click |-> Undefined, rejected |-> TRUE]

\* no seek is waiting for its first tick
NoSought == [target |-> Undefined, rewound |-> FALSE]

\* the element has moved its clock from position `from` back to position `to`
\* since the seek that waits for its first tick
Rewound(s, from, to) ==
    IF s.target # Undefined /\ to < from THEN [s EXCEPT !.rewound = TRUE] ELSE s

\* const effectiveDuration = audioDuration ?? data.endTimeSec - data.startTimeSec
effectiveDuration(aDur, start, end) == IF aDur # Undefined THEN aDur ELSE end - start

\* the relative time without the clamp
SeekTargetUnclamped(time, start, effDur) == time - start

\* seekTo: clamp(time - data.startTimeSec, 0, effectiveDuration)
SeekTarget(time, start, effDur) == clamp(time - start, 0, effDur)

\* the clicked time measured from the left edge of the svg, not of the plot
ClickedTimeFromEdge(x, startTime, endTime) ==
    LET duration == Max2(endTime - startTime, MinDuration)
        relativeX == clamp(x, 0, usableWidth)
    IN  startTime + (relativeX * duration) \div usableWidth

\* OverviewChart.handleClick: the time passed to onSeek for a click at offset x
ClickedTime(x, startTime, endTime) ==
    LET duration == Max2(endTime - startTime, MinDuration)
        relativeX == clamp(x - leftPadding, 0, usableWidth)
    IN  startTime + (relativeX * duration) \div usableWidth

\* what audio.currentTime reads after `audio.currentTime = t`: an element with
\* metadata clamps to its duration, one without keeps t as its start position
ClockAfterSet(t, loaded, duration) == IF loaded THEN Min2(t, duration) ELSE t

IdlePlayback ==
    /\ startTimeSec = 0 /\ endTimeSec = 0 /\ mediaDuration = 0 /\ metadataLoaded = FALSE
    /\ audioCurrentTime = 0 /\ audioPaused = TRUE /\ audioDuration = Undefined
    /\ currentTime = 0 /\ isPlaying = FALSE /\ lastSeek = NoSeek /\ sought = NoSought
    /\ lastEvent = "none"

\* SignalPreview mounted on a parsed result and an audio file
InitPlayback ==
    /\ IdleApp /\ IdleQuery /\ IdleInfer
    /\ startTimeSec \in StartTimes
    /\ \E d \in DataDurations : endTimeSec = startTimeSec + d
    /\ mediaDuration \in MediaDurations
    /\ metadataLoaded = FALSE
    /\ audioCurrentTime = 0 /\ audioPaused = TRUE /\ audioDuration = Undefined
    /\ currentTime = 0 /\ isPlaying = FALSE /\ lastSeek = NoSeek /\ sought = NoSought
    /\ lastEvent = "none"

dataVars == <<startTimeSec, endTimeSec, mediaDuration>>

\* "loadedmetadata": the element applies its start position, handleLoaded runs
handleLoaded ==
    /\ ~metadataLoaded
    /\ metadataLoaded' = TRUE
    /\ audioCurrentTime' = Min2(audioCurrentTime, mediaDuration)
    /\ audioDuration' = mediaDuration
    /\ lastSeek' = NoSeek
    /\ sought' = Rewound(sought, audioCurrentTime, audioCurrentTime')
    /\ UNCHANGED <<dataVars, audioPaused, currentTime, isPlaying>>
    /\ lastEvent' = lastEvent

\* togglePlayback on a paused element whose play() succeeds: "play", handlePlay
PlayStarted ==
    /\ audioPaused /\ metadataLoaded
    /\ audioPaused' = FALSE
    /\ audioCurrentTime' = IF audioCurrentTime >= mediaDuration THEN 0 ELSE audioCurrentTime
    /\ isPlaying' = TRUE
    /\ lastSeek' = NoSeek
    /\ sought' = Rewound(sought, audioCurrentTime, audioCurrentTime')
    /\ UNCHANGED <<dataVars, metadataLoaded, audioDuration, currentTime>>
    /\ lastEvent' = "play"

\* a catch that also takes the cursor back to the start
PlayRejectedRewinds ==
    /\ audioPaused
    /\ isPlaying' = FALSE
    /\ currentTime' = 0
    /\ lastSeek' = PlayFailure
    /\ UNCHANGED <<dataVars, metadataLoaded, audioCurrentTime, audioPaused, audioDuration,
                   sought>>
    /\ lastEvent' = "rejected"

\* togglePlayback on a paused element whose play() is rejected: the catch
PlayRejected ==
    /\ audioPaused
    /\ isPlaying' = FALSE
    /\ lastSeek' = PlayFailure
    /\ UNCHANGED <<dataVars, metadataLoaded, audioCurrentTime, audioPaused, audioDuration,
                   currentTime, sought>>
    /\ lastEvent' = "rejected"

\* togglePlayback on a playing element: audio.pause(), "pause", handlePause
PauseRequested ==
    /\ ~audioPaused
    /\ audioPaused' = TRUE
    /\ isPlaying' = FALSE
    /\ lastSeek' = NoSeek
    /\ UNCHANGED <<dataVars, metadataLoaded, audioCurrentTime, audioDuration, currentTime,
                   sought>>
    /\ lastEvent' = "pause"

\* the audio clock moves on while the element plays
ClockAdvance ==
    /\ ~audioPaused /\ audioCurrentTime + ClockStep < mediaDuration
    /\ audioCurrentTime' = audioCurrentTime + ClockStep
    /\ lastSeek' = NoSeek
    /\ UNCHANGED <<dataVars, metadataLoaded, audioPaused, audioDuration, currentTime, isPlaying,
                   sought>>
    /\ lastEvent' = lastEvent

\* an "ended" handler that moves the cursor and leaves the playing flag alone
handleEndedStillPlaying ==
    /\ ~audioPaused /\ audioCurrentTime + ClockStep >= mediaDuration
    /\ audioCurrentTime' = mediaDuration
    /\ audioPaused' = TRUE
    /\ currentTime' = mediaDuration
    /\ lastSeek' = NoSeek
    /\ UNCHANGED <<dataVars, metadataLoaded, audioDuration, sought, isPlaying>>
    /\ lastEvent' = "ended"

\* the audio clock reaches the end: the element pauses, "ended", handleEnded
handleEnded ==
    /\ ~audioPaused /\ audioCurrentTime + ClockStep >= mediaDuration
    /\ audioCurrentTime' = mediaDuration
    /\ audioPaused' = TRUE
    /\ isPlaying' = FALSE
    /\ currentTime' = mediaDuration
    /\ lastSeek' = NoSeek
    /\ UNCHANGED <<dataVars, metadataLoaded, audioDuration, sought>>
    /\ lastEvent' = "ended"

\* "timeupdate": handleTimeUpdate
handleTimeUpdate ==
    /\ currentTime' = audioCurrentTime
    /\ lastSeek' = NoSeek
    /\ sought' = NoSought
    /\ UNCHANGED <<dataVars, metadataLoaded, audioCurrentTime, audioPaused, audioDuration,
                   isPlaying>>
    /\ lastEvent' = lastEvent

\* the requestAnimationFrame callback `update`, scheduled while isPlaying
FrameUpdate ==
    /\ isPlaying
    /\ currentTime' = audioCurrentTime
    /\ lastSeek' = NoSeek
    /\ sought' = NoSought
    /\ UNCHANGED <<dataVars, metadataLoaded, audioCurrentTime, audioPaused, audioDuration,
                   isPlaying>>
    /\ lastEvent' = lastEvent

\* a seek that moves the cursor and leaves the audio clock to a later step
seekToCursorOnly(time, click) ==
    LET clampedTime == SeekTarget(time, startTimeSec,
                                  effectiveDuration(audioDuration, startTimeSec, endTimeSec))
    IN  /\ currentTime' = clampedTime
        /\ lastSeek' = [seek |-> TRUE, time |-> time, click |-> click, rejected |-> FALSE]
        /\ sought' = [target |-> clampedTime, rewound |-> FALSE]
        /\ UNCHANGED <<dataVars, metadataLoaded, audioCurrentTime, audioPaused, audioDuration,
                       isPlaying>>
        /\ lastEvent' = lastEvent

\* seekTo(time); click is the pixel offset when the overview chart calls it
seekTo(time, click) ==
    LET clampedTime == SeekTarget(time, startTimeSec,
                                  effectiveDuration(audioDuration, startTimeSec, endTimeSec))
    IN  /\ audioCurrentTime' = ClockAfterSet(clampedTime, metadataLoaded, mediaDuration)
        /\ currentTime' = clampedTime
        /\ lastSeek' = [seek |-> TRUE, time |-> time, click |-> click, rejected |-> FALSE]
        /\ sought' = [target |-> clampedTime, rewound |-> FALSE]
        /\ UNCHANGED <<dataVars, metadataLoaded, audioPaused, audioDuration, isPlaying>>
        /\ lastEvent' = lastEvent

\* the props change, then the effect "Preview data refreshed" runs. A new
\* audioUrl makes the element load the new file from the start, paused and
\* without metadata; with the same audioUrl the element goes on as it was
refreshPreview(newAudio, start, end, media) ==
    /\ newAudio \/ start # startTimeSec \/ end # endTimeSec
    /\ startTimeSec' = start /\ endTimeSec' = end
    /\ IF newAudio
       THEN /\ mediaDuration' = media
            /\ metadataLoaded' = FALSE
            /\ audioCurrentTime' = 0
            /\ audioPaused' = TRUE
       ELSE UNCHANGED <<mediaDuration, metadataLoaded, audioCurrentTime, audioPaused>>
    /\ currentTime' = 0
    /\ isPlaying' = FALSE
    /\ audioDuration' = Undefined
    /\ lastSeek' = NoSeek
    /\ sought' = NoSought
    /\ lastEvent' = "reset"

jumpToBeginning == seekTo(startTimeSec, Undefined)

jumpToEnd == seekTo(endTimeSec, Undefined)

skipForward == seekTo(audioCurrentTime + startTimeSec + SkipSeconds * TicksPerSecond, Undefined)

skipBackward == seekTo(audioCurrentTime + startTimeSec - SkipSeconds * TicksPerSecond, Undefined)

\* jumpToQuarter, jumpToHalf, jumpToThreeQuarters: jumpToTime(effectiveDuration * k / 4)
jumpToFraction(k) ==
    seekTo((effectiveDuration(audioDuration, startTimeSec, endTimeSec) * k) \div 4
               + startTimeSec, Undefined)

\* a click on the overview chart: handleClick, then onSeek = seekTo
handleClick(x) == seekTo(ClickedTime(x, startTimeSec, endTimeSec), x)

\* ---------------------------------------------------------- SignalPreview
\* the state before the first render of a preview of store st parsed from src
Mounted(st, src) ==
    /\ IdleApp /\ IdlePlayback /\ IdleInfer
    /\ samples = st
    /\ sourceColumn = src.column
    /\ scalingFactor = src.divisor
    /\ hasBaseline \in {b \in BOOLEAN : HasField(st, "baseline") => b}
    /\ hasResistance \in {b \in BOOLEAN : HasField(st, "resistance") => b}
    /\ queryTime = Undefined
    /\ currentSample = NoSample
    /\ referenceIndex = Undefined
    /\ gaugeValue = Undefined
    /\ displayValue = Undefined
    /\ rendered = FALSE

InitQuery ==
    \E n \in 1..MaxLen, src \in SourceSet : \E st \in StoresOfLen(n, src) : Mounted(st, src)

InitGauge ==
    \E n \in 1..GaugeLen, src \in SourceSet : \E st \in RegularStoresOfLen(n, src) : Mounted(st, src)

\* one render of SignalPreview at cursor time t
Render(t) ==
    /\ queryTime' = t
    /\ currentSample' = useInterpolatedSample(samples, t)
    /\ referenceIndex' = referenceSource(currentSample', samples, hasBaseline, hasResistance)
    /\ gaugeValue' = calculateGaugePosition(currentSample', samples, hasBaseline, hasResistance)
    /\ displayValue' = clamp(gaugeValue', DISPLAY_MIN, DISPLAY_MAX)
    /\ rendered' = TRUE
    /\ UNCHANGED <<samples, sourceColumn, scalingFactor, hasBaseline, hasResistance>>
    /\ UNCHANGED <<appVars, playVars, inferVars>>

\* the cursor may designate any time from before the first to after the last sample
RenderAt ==
    \E t \in (samples[1].timeSec - 1)..(samples[Len(samples)].timeSec + 1) : Render(t)

NextQuery == RenderAt

InitApp == IdleApp /\ IdleQuery /\ IdlePlayback /\ IdleInfer

CsvSelected == \E file \in CsvFiles \cup {Null} : handleCsvChange(file) /\ UNCHANGED <<queryVars, playVars, inferVars>>
ParseResolves == \E req \in pending : ParseResolved(req) /\ UNCHANGED <<queryVars, playVars, inferVars>>
ParseRejects == \E req \in pending : ParseRejected(req) /\ UNCHANGED <<queryVars, playVars, inferVars>>
WavSelected == \E file \in WavFiles \cup {Null} : handleWavChange(file) /\ UNCHANGED <<queryVars, playVars, inferVars>>
PreviewClicked == handlePreviewClick /\ UNCHANGED <<queryVars, playVars, inferVars>>

NextApp ==
    \/ CsvSelected
    \/ ParseResolves
    \/ ParseRejects
    \/ WavSelected
    \/ PreviewClicked

SpecApp == InitApp /\ [][NextApp]_vars

Others == <<appVars, queryVars, inferVars>>

MetadataLoaded == handleLoaded /\ UNCHANGED Others
PlaySucceeds == PlayStarted /\ UNCHANGED Others
PlayFails == PlayRejected /\ UNCHANGED Others
Pause == PauseRequested /\ UNCHANGED Others
ClockMoves == ClockAdvance /\ UNCHANGED Others
PlaybackEnds == handleEnded /\ UNCHANGED Others
TimeUpdate == handleTimeUpdate /\ UNCHANGED Others
AnimationFrame == FrameUpdate /\ UNCHANGED Others
JumpToBeginning == jumpToBeginning /\ UNCHANGED Others
JumpToEnd == jumpToEnd /\ UNCHANGED Others
SkipForward == skipForward /\ UNCHANGED Others
SkipBackward == skipBackward /\ UNCHANGED Others
JumpToFraction == \E k \in 1..3 : jumpToFraction(k) /\ UNCHANGED Others
OverviewClick == \E x \in ClickOffsets : handleClick(x) /\ UNCHANGED Others

NextPlayback ==
    \/ MetadataLoaded
    \/ PlaySucceeds
    \/ PlayFails
    \/ Pause
    \/ ClockMoves
    \/ PlaybackEnds
    \/ TimeUpdate
    \/ AnimationFrame
    \/ JumpToBeginning
    \/ JumpToEnd
    \/ SkipForward
    \/ SkipBackward
    \/ JumpToFraction
    \/ OverviewClick

SpecPlayback == InitPlayback /\ [][NextPlayback]_vars

\* the preview with props that change while it is mounted
PreviewRefreshed ==
    /\ \E newAudio \in BOOLEAN, start \in StartTimes, d \in DataDurations,
          media \in MediaDurations :
          refreshPreview(newAudio, start, start + d, media)
    /\ UNCHANGED Others

NextPreview ==
    \/ NextPlayback
    \/ PreviewRefreshed

SpecPreview == InitPlayback /\ [][NextPreview]_vars

InitInfer ==
    /\ IdleApp /\ IdleQuery /\ IdlePlayback
    /\ csvFields \in HeaderRows
    /\ csvRows \in Tables(csvFields)
    /\ chosen = NotChosen /\ scaling = NotScaled
    /\ csvErrors = <<>> /\ parsed = NotParsed /\ unsettled = {}

\* parseGsrCsv's call of chooseValueField(fields, rows)
ChooseValueField ==
    /\ chosen = NotChosen
    /\ chosen' = chooseValueField(csvFields, csvRows)
    /\ UNCHANGED <<csvFields, csvRows, csvErrors, parsed, unsettled, scaling>>
    /\ UNCHANGED <<appVars, queryVars, playVars>>

NextInfer == ChooseValueField

SpecInfer == InitInfer /\ [][NextInfer]_vars

\* the while loop of chooseValueField on its own, for one median
InitDivisor ==
    /\ IdleApp /\ IdleQuery /\ IdlePlayback
    /\ csvFields = <<>> /\ csvRows = <<>> /\ chosen = NotChosen
    /\ csvErrors = <<>> /\ parsed = NotParsed /\ unsettled = {}
    /\ \E m \in Medians : scaling = [median |-> m, divisor |-> Undefined]

DeriveDivisor ==
    /\ scaling.divisor = Undefined
    /\ scaling' = [scaling EXCEPT !.divisor = DivisorLoop(scaling.median, 1, 0)]
    /\ UNCHANGED <<csvFields, csvRows, chosen, csvErrors, parsed, unsettled>>
    /\ UNCHANGED <<appVars, queryVars, playVars>>

NextDivisor == DeriveDivisor

SpecDivisor == InitDivisor /\ [][NextDivisor]_vars

\* the file whose content is the table csvFields, csvRows, csvErrors
TableFile == "table.csv"

\* App before the selection of a CSV file with one of the bounded tables
InitParse ==
    /\ IdleApp /\ IdleQuery /\ IdlePlayback
    /\ csvFields \in ParseHeaderRows
    /\ csvRows \in ParseTables(csvFields)
    /\ csvErrors \in PapaErrors(csvFields, csvRows)
    /\ chosen = NotChosen /\ parsed = NotParsed /\ unsettled = {} /\ scaling = NotScaled

tableVars == <<csvFields, csvRows, csvErrors, chosen, scaling>>

\* the user selects the file, once
TableSelected ==
    /\ latestParseId = 0
    /\ handleCsvChange(TableFile)
    /\ UNCHANGED <<tableVars, parsed, unsettled, queryVars, playVars>>

\* Papa.parse calls `complete`, which calls resolve
TableResolved ==
    \E req \in pending, outcome \in {parseGsrCsv(csvFields, csvRows, csvErrors)} :
        /\ req.parseId \notin unsettled
        /\ outcome.status = "resolved"
        /\ parsed' = outcome
        /\ ContinueResolved(req, ParsedResult(req.file, req.parseId))
        /\ UNCHANGED <<tableVars, unsettled, queryVars, playVars>>

\* Papa.parse calls `complete`, which calls reject
TableRejected ==
    \E req \in pending, outcome \in {parseGsrCsv(csvFields, csvRows, csvErrors)} :
        /\ req.parseId \notin unsettled
        /\ outcome.status = "rejected"
        /\ parsed' = outcome
        /\ ContinueRejected(req, outcome.message)
        /\ UNCHANGED <<tableVars, unsettled, queryVars, playVars>>

\* Papa.parse calls `complete`, which throws: handleCsvChange stays suspended
TableThrown ==
    \E req \in pending, outcome \in {parseGsrCsv(csvFields, csvRows, csvErrors)} :
        /\ req.parseId \notin unsettled
        /\ outcome.status = "thrown"
        /\ parsed' = outcome
        /\ unsettled' = unsettled \cup {req.parseId}
        /\ UNCHANGED <<tableVars, appVars, queryVars, playVars>>

NextParse ==
    \/ TableSelected
    \/ TableResolved
    \/ TableRejected
    \/ TableThrown

SpecParse == InitParse /\ [][NextParse]_vars

\* the files of the liveness check: tables of at most MaxSettleRows rows
InitSettle ==
    /\ IdleApp /\ IdleQuery /\ IdlePlayback
    /\ csvFields \in ParseHeaderRows
    /\ csvRows \in {t \in ParseTables(csvFields) : Len(t) <= MaxSettleRows}
    /\ csvErrors \in PapaErrors(csvFields, csvRows)
    /\ chosen = NotChosen /\ parsed = NotParsed /\ unsettled = {} /\ scaling = NotScaled

\* Papa.parse always calls `complete` (or `error`) for a file it was given
SpecParseFair ==
    InitSettle /\ [][NextParse]_vars
        /\ WF_vars(TableResolved) /\ WF_vars(TableRejected) /\ WF_vars(TableThrown)

SpecQuery == InitQuery /\ [][NextQuery]_vars

SpecGauge == InitGauge /\ [][NextQuery]_vars

\* ==================================================================== claims
InRange(x) == DISPLAY_MIN <= x /\ x <= DISPLAY_MAX

\* the query sample carries a baseline and the store has a baseline column
BaselinePresent == hasBaseline /\ currentSample.baseline # Undefined

BothPresent ==
    /\ BaselinePresent
    /\ hasResistance /\ currentSample.resistance # Undefined

First == samples[1]
Last == samples[Len(samples)]

\* C2 as stated: every value returned by calculateGaugePosition lies within
\* [DISPLAY_MIN, DISPLAY_MAX], whatever the flags and the sample.
C2_GaugeAlwaysInRange == rendered => InRange(gaugeValue)

\* C2 amended: with a baseline present the returned position lies within
\* [DISPLAY_MIN, DISPLAY_MAX]; without one the function returns the sample's plain
\* value unclamped, and the value the gauge displays is within the range always.
C2_GaugeInRangeWithBaseline ==
    rendered =>
        /\ BaselinePresent => InRange(gaugeValue)
        /\ ~BaselinePresent => gaugeValue = currentSample.value
        /\ InRange(displayValue)

\* a baseline above DISPLAY_MAX has been projected and clamped to DISPLAY_MAX
C2_Witness ==
    /\ rendered /\ BaselinePresent
    /\ currentSample.baseline > DISPLAY_MAX
    /\ gaugeValue = DISPLAY_MAX

\* the last sample strictly before time t (t is after the first sample)
LowerIndex(t) ==
    CHOOSE i \in 1..Len(samples) :
        /\ samples[i].timeSec < t
        /\ \A j \in (i + 1)..Len(samples) : samples[j].timeSec >= t

Interior == First.timeSec < queryTime /\ queryTime < Last.timeSec

ExactHit == \E i \in 1..Len(samples) : samples[i].timeSec = queryTime

\* C3: the baseline of the sample returned for any query time is the baseline of
\* a stored sample: of the boundary sample outside the store's span, of a sample
\* stored at exactly that time, else of the lower bracketing sample; it is never
\* a value interpolated between two stored baselines.
C3_BaselineStepLaw ==
    rendered =>
        IF queryTime <= First.timeSec THEN currentSample.baseline = First.baseline
        ELSE IF queryTime >= Last.timeSec THEN currentSample.baseline = Last.baseline
        ELSE IF ExactHit
             THEN \E i \in 1..Len(samples) :
                     /\ samples[i].timeSec = queryTime
                     /\ currentSample.baseline = samples[i].baseline
             ELSE currentSample.baseline = samples[LowerIndex(queryTime)].baseline

\* a query strictly between two samples that carry different baselines
C3_Witness ==
    /\ rendered /\ Interior /\ ~ExactHit
    /\ LET i == LowerIndex(queryTime)
       IN  /\ samples[i].baseline # Undefined
           /\ samples[i + 1].baseline # Undefined
           /\ samples[i].baseline # samples[i + 1].baseline
           /\ currentSample.baseline = samples[i].baseline

DistinctTimes ==
    \A i, j \in 1..Len(samples) : i # j => samples[i].timeSec # samples[j].timeSec

\* sample i (1-based) starts a baseline regime
IsRegimeStart(i) == i = 1 \/ samples[i].baseline # samples[i - 1].baseline

HasBoth(i) == samples[i].baseline # Undefined /\ samples[i].resistance # Undefined

Clamped(x) == IF x < DISPLAY_MIN THEN DISPLAY_MIN ELSE IF x > DISPLAY_MAX THEN DISPLAY_MAX ELSE x

\* C4: in a store with distinct sample times, the gauge position at the time of a
\* sample that starts a baseline regime and carries a baseline b and a resistance
\* is clamp(b, DISPLAY_MIN, DISPLAY_MAX), whatever the earlier regimes.
C4_GaugeAtRegimeStart ==
    (rendered /\ DistinctTimes) =>
        \A i \in 1..Len(samples) :
            (samples[i].timeSec = queryTime /\ IsRegimeStart(i) /\ HasBoth(i))
                => gaugeValue = Clamped(samples[i].baseline)

\* the query is at the start of a regime whose baseline an earlier regime used,
\* with another resistance
C4_Witness ==
    /\ rendered /\ DistinctTimes
    /\ \E i \in 3..Len(samples) :
          /\ samples[i].timeSec = queryTime /\ IsRegimeStart(i) /\ HasBoth(i)
          /\ samples[i].baseline <= DISPLAY_MAX
          /\ \E k \in 1..(i - 2) :
                /\ HasBoth(k)
                /\ samples[k].baseline = samples[i].baseline
                /\ samples[k].resistance # samples[i].resistance
          /\ gaugeValue = samples[i].baseline

\* the start of the current regime: the last sample not after the query sample
\* that has its baseline and starts a regime
RegimeStartIndex ==
    CHOOSE i \in 1..Len(samples) :
        /\ samples[i].timeSec <= currentSample.timeSec
        /\ samples[i].baseline = currentSample.baseline
        /\ IsRegimeStart(i)
        /\ \A j \in (i + 1)..Len(samples) :
              ~(/\ samples[j].timeSec <= currentSample.timeSec
                /\ samples[j].baseline = currentSample.baseline
                /\ IsRegimeStart(j))

\* C5: for a query sample with baseline and resistance the reference resistance
\* is the one recorded at the start of the current regime, and a sample of an
\* earlier regime never supplies the reference.
C5_ReferenceFromCurrentRegime ==
    (rendered /\ BothPresent) =>
        /\ samples[RegimeStartIndex].resistance # Undefined
              => referenceIndex + 1 = RegimeStartIndex
        /\ referenceIndex # Undefined => referenceIndex + 1 >= RegimeStartIndex

ReferenceOf(idx) == samples[idx + 1].resistance

\* twice the unclamped position: 2 * (b - 0.5 * (resistance - r0))
TwiceTarget(sample, r0) == 2 * sample.baseline - (sample.resistance - r0)

Expected(sample, r0) == Clamped(TwiceTarget(sample, r0) \div 2)

Unclamped(sample, r0) ==
    2 * DISPLAY_MIN <= TwiceTarget(sample, r0) /\ TwiceTarget(sample, r0) <= 2 * DISPLAY_MAX

\* two consecutive renders whose query samples lie in the same regime
SameRegimePair ==
    /\ rendered /\ BothPresent /\ referenceIndex # Undefined
    /\ rendered' /\ BothPresent' /\ referenceIndex' # Undefined
    /\ currentSample'.baseline = currentSample.baseline
    /\ ReferenceOf(referenceIndex') = ReferenceOf(referenceIndex)

\* C6: for two query samples of the same regime (baseline b, reference r0) the
\* position is clamp(b - 0.5 * (resistance - r0)); the sample with the lower
\* resistance never gets the lower position, and gets the strictly higher one
\* when neither position is clamped.
C6_GaugeDirectionality ==
    [][SameRegimePair =>
        LET r0 == ReferenceOf(referenceIndex)
            a == currentSample
            b == currentSample'
        IN  /\ gaugeValue = Expected(a, r0)
            /\ gaugeValue' = Expected(b, r0)
            /\ b.resistance < a.resistance => gaugeValue' >= gaugeValue
            /\ b.resistance > a.resistance => gaugeValue' <= gaugeValue
            /\ (b.resistance < a.resistance /\ Unclamped(a, r0) /\ Unclamped(b, r0))
                  => gaugeValue' > gaugeValue
            /\ (b.resistance > a.resistance /\ Unclamped(a, r0) /\ Unclamped(b, r0))
                  => gaugeValue' < gaugeValue]_vars

\* baseline 5.00, resistance 0.18 below the reference: position 5.09
C6_Witness ==
    /\ rendered /\ BothPresent /\ referenceIndex # Undefined
    /\ currentSample.baseline = 500 * Grain
    /\ currentSample.resistance - ReferenceOf(referenceIndex) = -(18 * Grain)
    /\ gaugeValue = 509 * Grain

\* C7: a query before the first or after the last sample returns exactly the
\* first, respectively last, stored sample, its stored timeSec included.
C7_BoundaryClamp ==
    rendered =>
        /\ queryTime < First.timeSec => currentSample = First
        /\ queryTime > Last.timeSec => currentSample = Last

\* a query after the last sample of a store of several samples
C7_Witness ==
    /\ rendered /\ Len(samples) >= 2
    /\ queryTime > Last.timeSec
    /\ currentSample = Last /\ currentSample # First

\* a continuation of an earlier request runs in this step
StaleCompletion ==
    \E req \in pending : req \notin pending' /\ req.parseId # latestParseId

\* C1: once a later request has been issued, the outcome of an earlier pending
\* request (resolved or rejected) changes none of gsrPreview, parseError and
\* isParsingCsv, and the result published in gsrPreview is always that of the
\* most recently issued request, parsed from the selected file.
C1_StaleParseDiscarded ==
    /\ [](gsrPreview # NoResult =>
             gsrPreview.parseId = latestParseId /\ gsrPreview.file = csvFile)
    /\ [][StaleCompletion => UNCHANGED <<gsrPreview, parseError, isParsingCsv>>]_vars

\* request 1 was superseded, settled and discarded, and the result of a later
\* request is published
C1_Witness ==
    /\ 1 \in discarded
    /\ gsrPreview # NoResult /\ gsrPreview.parseId = latestParseId
    /\ pending = {}

EffectiveDuration ==
    IF audioDuration # Undefined THEN audioDuration ELSE endTimeSec - startTimeSec

Between(x, lo, hi) == IF x < lo THEN lo ELSE IF x > hi THEN hi ELSE x

\* C8: in any playback state seekTo(t) sets the cursor and the audio clock to
\* clamp(t - startTimeSec, 0, totalDuration) and changes neither the playing
\* flag nor the paused state of the audio element.
C8_SeekContract ==
    [][lastSeek'.seek =>
        LET target == Between(lastSeek'.time - startTimeSec, 0, EffectiveDuration)
        IN  /\ currentTime' = target
            /\ audioCurrentTime' = target
            /\ isPlaying' = isPlaying
            /\ audioPaused' = audioPaused]_vars

\* a seek beyond the end while playing: the cursor is at the total duration
C8_Witness ==
    /\ lastSeek.seek /\ isPlaying
    /\ lastSeek.time - startTimeSec > EffectiveDuration
    /\ currentTime = EffectiveDuration /\ audioCurrentTime = EffectiveDuration

\* startTime + clamp(x - leftPadding, 0, usableWidth) / usableWidth * duration
ClickTarget(x) ==
    startTimeSec
        + (Between(x - leftPadding, 0, usableWidth)
             * Max2(endTimeSec - startTimeSec, MinDuration)) \div usableWidth

Column(field) == {csvRows[k][field] : k \in 1..Len(csvRows)}

\* the table of the claim: headers Time, Baseline, Resistance, every number in
\* the Baseline column in [1, 6.5] (and at least one), every number in the
\* Resistance column in [50, 60]; cells may be empty
BaselineResistanceTable ==
    /\ csvFields = <<"Time", "Baseline", "Resistance">>
    /\ Column("Baseline") # {Undefined}
    /\ \A c \in Column("Baseline") \ {Undefined} : 100 <= c /\ c <= 650
    /\ \A c \in Column("Resistance") \ {Undefined} : 5000 <= c /\ c <= 6000

\* C10: on a table with headers Time, Baseline, Resistance whose Baseline cells
\* lie in [1, 6.5] and whose Resistance cells lie in [50, 60], chooseValueField
\* returns the Baseline column with divisor 1.
C10_BaselineChosen ==
    (chosen # NotChosen /\ BaselineResistanceTable) =>
        chosen.status = "ok" /\ chosen.field = "Baseline" /\ chosen.divisor = 1

\* a constant Baseline column beside a Resistance column that varies
C10_Witness ==
    /\ chosen # NotChosen /\ BaselineResistanceTable
    /\ Len(csvRows) >= 2
    /\ Cardinality(Column("Baseline")) = 1
    /\ Cardinality(Column("Resistance")) >= 2
    /\ chosen.status = "ok" /\ chosen.field = "Baseline"

\* ------------------------------------------------ claims about parseGsrCsv
\* the time column of the table, the rows handed to chooseValueField and the
\* value column it picks
TimeColumn == FindField(csvFields, "time", 1)

KeptRows == FilterRows(csvFields, Numbered(csvRows), 1)

ValueChoice == chooseValueField(csvFields, KeptRows)

\* the columns chooseValueField considers
ConsideredColumns ==
    LET names == {csvFields[k] : k \in 1..Len(csvFields)}
    IN  IF \E f \in names : IsCandidate(f) THEN {f \in names : IsCandidate(f)}
        ELSE {f \in names : IsFallbackNumeric(f)}

\* no considered column holds a number in any row
NoNumericColumn ==
    \A f \in ConsideredColumns : \A k \in 1..Len(csvRows) : csvRows[k][f] < 0

\* C11: once the parse of a table without any number in a candidate column (or
\* without a candidate column) has run, the promise is rejected, parseError is
\* the message of that error and gsrPreview is null.
C11_NoNumericColumnSurfaced ==
    (parsed # NotParsed /\ NoNumericColumn) =>
        /\ parsed.status = "rejected"
        /\ parseError = parsed.message
        /\ gsrPreview = NoResult
        /\ ~isParsingCsv

\* C12: every parse settles: whenever a parse is running, isParsingCsv
\* eventually returns to false with gsrPreview or parseError set.
C12_EveryParseSettles ==
    isParsingCsv ~> (~isParsingCsv /\ (gsrPreview # NoResult \/ parseError # Null))

\* the rows with a parseable time and a parseable value
SurvivingRows ==
    IF TimeColumn = Null \/ ValueChoice.status # "ok" THEN {}
    ELSE {k \in 1..Len(csvRows) :
             csvRows[k][TimeColumn] >= 0 /\ csvRows[k][ValueChoice.field] >= 0}

\* C13 as stated: with at least one row that has a parseable time and a
\* parseable value the parse succeeds, however malformed the other rows are.
C13_PartialCorruptionTolerated ==
    (parsed # NotParsed /\ SurvivingRows # {}) => parsed.status = "resolved"

\* C13 amended: when Papa reports no error, one row with a parseable time and a
\* parseable value makes the parse succeed whatever the other rows hold; when
\* Papa reports an error for a row, the parse is rejected with the message of
\* the first error.
C13_CorruptionToleratedWithoutPapaErrors ==
    parsed # NotParsed =>
        /\ (csvErrors = <<>> /\ SurvivingRows # {}) => parsed.status = "resolved"
        /\ csvErrors # <<>> =>
              parsed.status = "rejected" /\ parsed.message = csvErrors[1].message

\* one good row between two rows without a number, no error: the parse succeeds
C13_Witness ==
    /\ parsed.status = "resolved" /\ csvErrors = <<>>
    /\ Len(csvRows) = 3 /\ SurvivingRows = {2}
    /\ Len(parsed.samples) = 1
    /\ gsrPreview # NoResult

\* C14: the samples of a published result are in non-decreasing order of
\* timeSec, and samples of equal timeSec are in the order of their rows.
C14_SortedStable ==
    (gsrPreview # NoResult /\ parsed.status = "resolved") =>
        \A i, j \in 1..Len(parsed.samples) :
            i < j =>
                /\ parsed.samples[i].timeSec <= parsed.samples[j].timeSec
                /\ parsed.samples[i].timeSec = parsed.samples[j].timeSec
                      => parsed.samples[i].row < parsed.samples[j].row

\* rows in the order 1.5, 0, 0: the samples come out in the row order 2, 3, 1
C14_Witness ==
    /\ gsrPreview # NoResult /\ parsed.status = "resolved"
    /\ Len(parsed.samples) = 3
    /\ parsed.samples[1].row = 2 /\ parsed.samples[2].row = 3 /\ parsed.samples[3].row = 1
    /\ parsed.samples[1].timeSec = parsed.samples[2].timeSec
    /\ parsed.samples[2].timeSec < parsed.samples[3].timeSec

C17_JumpToEndAtTotalDuration ==
    [][JumpToEnd => currentTime' = EffectiveDuration']_vars

\* a step of the catch of a rejected play request
PlayFailed == lastSeek'.rejected

\* C19: when a play request is rejected, the cursor is left unchanged, the
\* playing flag is false afterwards, and the audio duration, the audio clock,
\* the parsed data and all other state stay as they were.
C19_PlayFailureNonFatal ==
    [][PlayFailed =>
        /\ currentTime' = currentTime
        /\ isPlaying' = FALSE
        /\ UNCHANGED <<audioDuration, audioCurrentTime, audioPaused, metadataLoaded,
                       startTimeSec, endTimeSec, mediaDuration, sought>>
        /\ UNCHANGED <<appVars, queryVars, inferVars>>]_vars

\* a play request is rejected after metadata load with the cursor at 20 s
C19_Witness ==
    /\ lastSeek.rejected
    /\ metadataLoaded /\ audioPaused /\ ~isPlaying
    /\ currentTime = 20 * TicksPerSecond

\* a tick: the timeupdate handler or the animation frame callback
Tick == TimeUpdate \/ AnimationFrame

\* C20 as stated: in every interleaving the first tick after a seek to T
\* publishes a cursor of at least T.
C20_FirstTickNotBeforeTarget ==
    [][(Tick /\ sought.target # Undefined) => currentTime' >= sought.target]_vars

\* C20 amended: seekTo writes the audio clock and the cursor in one step, a tick
\* publishes the reading of the audio clock, and the first tick after a seek to
\* T publishes a cursor of at least T unless the element itself has moved the
\* clock back in between; only a seek, a play request that restarts at the end
\* and the loading of the metadata move the clock back.
C20_SeekAtomicForTicks ==
    [][/\ lastSeek'.seek => audioCurrentTime' = currentTime' /\ currentTime' = sought'.target
       /\ Tick => currentTime' = audioCurrentTime /\ audioCurrentTime' = audioCurrentTime
       /\ (Tick /\ sought.target # Undefined /\ ~sought.rewound)
              => currentTime' >= sought.target
       /\ audioCurrentTime' < audioCurrentTime
              => lastSeek'.seek \/ PlaySucceeds \/ MetadataLoaded]_vars

\* a seek to 10 s while playing, the clock has advanced to 20 s and no tick
\* has run yet
C20_Witness ==
    /\ sought.target = 10 * TicksPerSecond /\ ~sought.rewound
    /\ isPlaying /\ audioCurrentTime > sought.target
    /\ currentTime = sought.target

\* ------------------------------------------- claims about missing fields
\* the query time lies strictly between two adjacent stored samples
Bracketed == rendered /\ Interior /\ ~ExactHit

LowerSample == samples[LowerIndex(queryTime)]

UpperSample == samples[LowerIndex(queryTime) + 1]

\* a field present on one side only is taken from that side, a field missing
\* on both sides is undefined
FallsBack(lower, upper, result) ==
    /\ (lower # Undefined /\ upper = Undefined) => result = lower
    /\ (lower = Undefined /\ upper # Undefined) => result = upper
    /\ (lower = Undefined /\ upper = Undefined) => result = Undefined

\* C18 as stated: between two adjacent samples, the baseline and the resistance
\* of the interpolated sample each fall back to the side that has the field and
\* are undefined when neither side has it.
C18_MissingFieldFallback ==
    Bracketed =>
        /\ FallsBack(LowerSample.baseline, UpperSample.baseline, currentSample.baseline)
        /\ FallsBack(LowerSample.resistance, UpperSample.resistance,
                     currentSample.resistance)

\* C18 amended: between two adjacent samples the resistance falls back to the
\* side that has it and is undefined when neither side has it; the baseline is
\* the lower sample's baseline, hence undefined whenever the lower sample has
\* none, whether or not the upper sample has one.
C18_ResistanceFallsBack ==
    Bracketed =>
        /\ FallsBack(LowerSample.resistance, UpperSample.resistance,
                     currentSample.resistance)
        /\ currentSample.baseline = LowerSample.baseline

\* the baseline is missing on the lower sample only: the result has none
C18_Witness ==
    /\ Bracketed
    /\ LowerSample.baseline = Undefined /\ UpperSample.baseline # Undefined
    /\ currentSample.baseline = Undefined
    /\ currentSample.resistance # Undefined

\* -------------------------------------- claims about the playback state
\* C21: the playing flag is true only if the most recent playback event was a
\* play event; a pause event, the end of playback, a rejected play request and
\* a change of the audio or of the data leave it false; at the end of playback
\* the cursor is set to the duration of the audio.
C21_PlayingOnlyAfterPlay ==
    /\ [](isPlaying => lastEvent = "play")
    /\ [][/\ (Pause \/ PlaybackEnds \/ PlayFails \/ PreviewRefreshed) => ~isPlaying'
          /\ PlaybackEnds => currentTime' = mediaDuration
          /\ PlaySucceeds => isPlaying']_vars

\* playback has run to the end of a 30 s audio after the data had been changed
C21_Witness ==
    /\ lastEvent = "ended" /\ ~isPlaying
    /\ currentTime = 30 * TicksPerSecond /\ mediaDuration = 30 * TicksPerSecond
    /\ audioDuration = Undefined

\* --------------------------------------------- claims about interpolation
\* result = lower + (upper - lower) * (t - lower.timeSec) / (upper.timeSec -
\* lower.timeSec), without rounding, and result lies between lower and upper
IsLinear(lower, upper, result) ==
    LET den == UpperSample.timeSec - LowerSample.timeSec
        num == queryTime - LowerSample.timeSec
    IN  /\ 0 < num /\ num < den
        /\ (result - lower) * den = (upper - lower) * num
        /\ \/ lower <= result /\ result <= upper
           \/ upper <= result /\ result <= lower

ReferenceCandidates ==
    {i \in 1..Len(samples) :
        /\ samples[i].timeSec <= currentSample.timeSec
        /\ samples[i].baseline = currentSample.baseline
        /\ samples[i].resistance # Undefined}

ResistancePresent == hasResistance /\ currentSample.resistance # Undefined

\* C23: calculateGaugePosition returns the plain interpolated value when the
\* baseline is absent (no baseline column, or none on the query sample);
\* clamp(baseline, DISPLAY_MIN, DISPLAY_MAX) when the baseline is present and
\* the resistance is absent or no stored sample supplies a reference; and the
\* clamped projection baseline - 0.5 * (resistance - reference) only otherwise.
C23_GaugeFallbackChain ==
    rendered =>
        /\ ~BaselinePresent => gaugeValue = currentSample.value
        /\ (BaselinePresent /\ (~ResistancePresent \/ ReferenceCandidates = {}))
              => /\ gaugeValue = Clamped(currentSample.baseline)
                 /\ referenceIndex = Undefined
        /\ (BaselinePresent /\ ResistancePresent /\ ReferenceCandidates # {})
              => /\ referenceIndex + 1 \in ReferenceCandidates
                 /\ gaugeValue = Expected(currentSample, ReferenceOf(referenceIndex))

\* baseline and resistance are present on the query sample, but no stored
\* sample up to the query time carries both: the position is the baseline
C23_Witness ==
    /\ rendered /\ BothPresent
    /\ ReferenceCandidates = {}
    /\ gaugeValue = currentSample.baseline
    /\ gaugeValue # currentSample.value

\* ----------------------------------------- claims about chooseValueField
\* the rows with a number in column f
RowsWithValue(f) == {k \in 1..Len(csvRows) : csvRows[k][f] >= 0}

\* the considered columns with at least one number
ScoredColumns == {f \in ConsideredColumns : RowsWithValue(f) # {}}

\* the divisor derived for column f
DivisorOf(f) == DivisorLoop(Median(ColumnValues(csvRows, f, 1)), 1, 0)

\* the bonus of the claim, in twentieths: 0.4, 0.25, 0.2, 0.15, 0.1, else 0.05
BonusOf(f) ==
    IF Contains(f, "baseline") THEN 8
    ELSE IF Contains(f, "resistance") THEN 5
    ELSE IF Contains(f, "conductance") THEN 4
    ELSE IF Contains(f, "data") THEN 3
    ELSE IF Contains(f, "value") THEN 2
    ELSE 1

\* the score of the claim for column f, in twentieths, as the fraction num / den:
\* 0.6 * (fraction of scaled values in [0.5, 10]) + 0.25 * v + bonus, where v is
\* min(spread / 5, 1) for a positive spread and -0.2 for the spread 0
ScoreOf(f) ==
    LET rows == RowsWithValue(f)
        n == Cardinality(rows)
        one == 100 * DivisorOf(f)
        within == Cardinality({k \in rows : 50 * DivisorOf(f) <= csvRows[k][f]
                                              /\ csvRows[k][f] <= 10 * one})
        hi == CHOOSE v \in {csvRows[k][f] : k \in rows} :
                  \A k \in rows : csvRows[k][f] <= v
        lo == CHOOSE v \in {csvRows[k][f] : k \in rows} :
                  \A k \in rows : csvRows[k][f] >= v
        spread == hi - lo
        v == IF spread = 0 THEN -(n * one)
             ELSE IF spread >= 5 * one THEN 5 * n * one ELSE n * spread
    IN  [num |-> 12 * within * one + v + BonusOf(f) * n * one, den |-> n * one]

Higher(a, b) == a.num * b.den > b.num * a.den

Position(f) == CHOOSE k \in 1..Len(csvFields) : csvFields[k] = f

\* C24: chooseValueField returns the considered column with at least one number
\* that has the highest score, and of several columns with that score the first
\* in header order; it returns a column whenever one has a number.
C24_HighestScoreFirstKept ==
    chosen # NotChosen =>
        /\ chosen.status = "ok" <=> ScoredColumns # {}
        /\ chosen.status = "ok" =>
              /\ chosen.field \in ScoredColumns
              /\ \A g \in ScoredColumns \ {chosen.field} :
                    /\ ~Higher(ScoreOf(g), ScoreOf(chosen.field))
                    /\ ~Higher(ScoreOf(chosen.field), ScoreOf(g))
                          => Position(chosen.field) < Position(g)

\* two columns of equal score: the first one is returned
C24_Witness ==
    /\ chosen # NotChosen /\ chosen.status = "ok"
    /\ csvFields = <<"Time", "GSR", "EDA">>
    /\ ScoredColumns = {"GSR", "EDA"}
    /\ ~Higher(ScoreOf("GSR"), ScoreOf("EDA")) /\ ~Higher(ScoreOf("EDA"), ScoreOf("GSR"))
    /\ \E k \in 1..Len(csvRows) : csvRows[k]["GSR"] # csvRows[k]["EDA"]
    /\ chosen.field = "GSR"

\* ------------------------------------------------ claims about the divisor
\* C25: the divisor derived for a median is 10^k for the smallest k in 0..6
\* with median / 10^k <= 20, or 10^6 when there is no such k; it is one of
\* 1, 10, ..., 10^6, and it is 1 whenever the median is at most 20.
C25_DivisorDerivation ==
    scaling.divisor # Undefined =>
        /\ \E k \in 0..6 :
              /\ scaling.divisor = Pow10(k)
              /\ scaling.median <= 2000 * Pow10(k) \/ k = 6
              /\ \A j \in 0..(k - 1) : scaling.median > 2000 * Pow10(j)
        /\ scaling.median <= 2000 => scaling.divisor = 1

\* a median above 20 * 10^6: six divisions, and the scaled median is still
\* above 20
C25_Witness ==
    /\ scaling.median = 21 * Pow10(8)
    /\ scaling.divisor = Pow10(6)

\* ------------------------------------------- claims about the observed range
\* the values of the samples of the published result, in hundredths
StoredValues == {parsed.samples[i].value : i \in 1..Len(parsed.samples)}

\* minValue and maxValue of the published result, in hundredths
PublishedMin == parsed.minValue \div parsed.scalingFactor
PublishedMax == parsed.maxValue \div parsed.scalingFactor

\* C26: in every published result minValue and maxValue are the minimum and
\* the maximum of the value field over the samples of the result: every value
\* lies between them and each of them is the value of some sample.
C26_ObservedRange ==
    parsed.status = "resolved" =>
        /\ \A v \in StoredValues : PublishedMin <= v /\ v <= PublishedMax
        /\ PublishedMin \in StoredValues
        /\ PublishedMax \in StoredValues

\* -------------------------------------- claims about the value and time column
\* C27: whenever column inference succeeds the selected value column is not
\* the time column (the first header that contains "time"), also under a time
\* header that matches a priority pattern such as "data".
C27_ValueColumnIsNotTimeColumn ==
    parsed.status = "resolved" => parsed.sourceColumn # TimeColumn

\* ------------------------------------------ claims about the preview of App
\* C28: previewVisible is true only if a CSV and a WAV file are selected, the
\* parsed preview exists and was parsed from the CSV selected last, and no
\* parse error is recorded.
C28_PreviewVisibleOnlyWhenReady ==
    previewVisible =>
        /\ csvFile # Null /\ wavFile # Null
        /\ gsrPreview # NoResult
        /\ gsrPreview.file = csvFile /\ gsrPreview.parseId = latestParseId
        /\ parseError = Null

\* the preview is shown for the file selected last, after the parse of an
\* earlier selection was discarded
C28_Witness ==
    /\ previewVisible /\ discarded # {}
    /\ gsrPreview.parseId = latestParseId /\ gsrPreview.file = csvFile

\* ------------------------------------------- claims about the parse error
\* C30: whenever the parse of the CSV file selected last is in progress
\* (isParsingCsv is true) parseError is null: selecting a new CSV file clears
\* the error left by the failed parse of the file selected before.
C30_NoStaleErrorWhileParsing == isParsingCsv => parseError = Null

\* --------------------------------------------- claims about the cursor range
\* C29: in every reachable state of SignalPreview, after any sequence of clock
\* ticks, seeks, jumps, overview clicks, metadata-loaded and end-of-playback
\* events, 0 <= currentTime <= effectiveDuration.
C29_CursorWithinDuration ==
    /\ 0 <= currentTime
    /\ currentTime <= effectiveDuration(audioDuration, startTimeSec, endTimeSec)

====
